---- MODULE Spec2Model ----
(***************************************************************************)
(* Model of the InQuest Labs API wrapper (src/inquestlabs.py): the client  *)
(* constructor with its credential resolution, the request executor __API  *)
(* with its retry loop and response classification, the hasher __HASH, and *)
(* the operations dfi_download and dfi_search.                             *)
(*                                                                         *)
(* Python strings that the code only compares or passes along are TLA+     *)
(* strings.  Strings the code formats are sequences of parts               *)
(* ("%s" % x  becomes  <<..., x, ...>>).  Strings the code lower-cases are *)
(* sequences of one-character strings.                                     *)
(***************************************************************************)
EXTENDS Integers, Sequences, FiniteSets, TLC

VARIABLES
    env,            \* os.environ.get("IQLABS_APIKEY")
    config_state,   \* the file system object at the configuration path
    fs,             \* the other files: path -> content, or Missing
    ctor,           \* the arguments the constructor was called with
    self,           \* the client object: the attributes __init__ assigned
    pc,             \* position of the running operation
    call,           \* the running operation and its arguments
    api,            \* locals of __API: method, path, raw, endpoint, headers
    attempt,        \* __API's attempt counter
    requests,       \* number of requests.request() calls of this operation
    sleeps,         \* number of time.sleep() calls of this operation
    files,          \* number of file handles the operation holds open
    transport,      \* transport failures the network still produces
    response,       \* the response requests.request() returned
    api_result,     \* what __API returned or raised
    wire,           \* the requests handed to requests.request(), in order
    naps,           \* the ceilings (ms) of the backoff sleeps, in order
    delay,          \* the delay (ms) of the last backoff sleep
    caught,         \* the exception the except block caught last
    result          \* what the operation returned or raised

vars == <<env, config_state, fs, ctor, self, pc, call, api, attempt, requests,
          sleeps, files, transport, response, api_result, wire, naps, delay,
          caught, result>>

exec_vars == <<api, attempt, requests, sleeps, files, transport, response, api_result,
               wire, naps, delay, caught>>
world_vars == <<env, config_state, fs>>

-----------------------------------------------------------------------------
(* Bounds of the model. *)

MaxRetries == 3
MaxFailures == 4

-----------------------------------------------------------------------------
(* Python values. *)

None == "<None>"
Nothing == [kind |-> "nothing"]

\* Python truthiness of a str / bytes / None value.
Truthy(v) == v # None /\ v # ""

Return(v) == [kind |-> "return", value |-> v]
Raise(type, message) == [kind |-> "raise", type |-> type, message |-> message]

-----------------------------------------------------------------------------
(* The constructor: credential resolution. *)

DefaultBaseUrl == "https://labs.inquest.net/api"
DefaultConfigFile == "~/.iqlabskey"

\* What can sit at the configuration path.  A regular file is described by
\* whether configparser can parse it and by the sections it then yields.
ConfigStates ==
    { [exists |-> FALSE, isfile |-> FALSE, parses |-> FALSE, sections |-> <<>>],
      [exists |-> TRUE,  isfile |-> FALSE, parses |-> FALSE, sections |-> <<>>],
      [exists |-> TRUE,  isfile |-> TRUE,  parses |-> FALSE, sections |-> <<>>],
      [exists |-> TRUE,  isfile |-> TRUE,  parses |-> TRUE,
       sections |-> [other |-> [apikey |-> "KEY_OTHER"]]],
      [exists |-> TRUE,  isfile |-> TRUE,  parses |-> TRUE,
       sections |-> [inquestlabs |-> [user |-> "someone"]]],
      [exists |-> TRUE,  isfile |-> TRUE,  parses |-> TRUE,
       sections |-> [inquestlabs |-> [apikey |-> "KEY_FILE"]]] }

EnvValues == {None, "", "KEY_ENV"}
ApiKeyArgs == {None, "", "KEY_ARG"}
ConfigArgs == {None, "custom.cfg"}
RetriesArgs == 1..MaxRetries

\* A config.read that swallows parse errors, as it swallows a missing file.
ConfigReadSilent(file) == Return(file.sections)

\* config.read(path): raises on content configparser cannot parse.
ConfigRead(file) ==
    IF file.parses THEN Return(file.sections) ELSE Raise("ParsingError", <<>>)

\* config.get(section, option): raises when the section or the option is missing.
ConfigGet(sections, section, option) ==
    IF section \notin DOMAIN sections THEN Raise("NoSectionError", <<section>>)
    ELSE IF option \notin DOMAIN sections[section] THEN Raise("NoOptionError", <<option>>)
    ELSE Return(sections[section][option])

\* The attributes assigned at lines 89-102.
InitialAttributes(api_key, config, retries) ==
    [ api_key     |-> api_key,
      base_url    |-> DefaultBaseUrl,
      config_file |-> IF config = None THEN DefaultConfigFile ELSE config,
      num_retries |-> retries,
      proxies     |-> None,
      verify_ssl  |-> TRUE ]

\* Lines 115-125: the key is read from the configuration file.
ConfigLookup(obj, file) ==
    LET rd == ConfigRead(file)
    IN  IF rd.kind = "raise"
        THEN <<obj, Raise("inquestlabs_exception",
                          <<"invalid configuration file: ", obj.config_file>>)>>
        ELSE LET got == ConfigGet(rd.value, "inquestlabs", "apikey")
             IN  IF got.kind = "raise"
                 THEN <<obj, Raise("inquestlabs_exception",
                                   <<"unable to find inquestlabs.apikey in: ",
                                     obj.config_file>>)>>
                 ELSE <<[obj EXCEPT !.api_key = got.value], Nothing>>

\* A resolution in which the environment is looked at before the argument.
ResolveEnvironmentFirst(obj, environ, file) ==
    IF Truthy(environ) THEN <<[obj EXCEPT !.api_key = environ], Nothing>>
    ELSE IF Truthy(obj.api_key) THEN <<obj, Nothing>>
    ELSE LET o1 == [obj EXCEPT !.api_key = environ]
         IN  IF file.exists /\ file.isfile THEN ConfigLookup(o1, file) ELSE <<o1, Nothing>>

\* Lines 104-127: the outcome of __init__ as <<object, exception or Nothing>>.
ResolveCredential(obj, environ, file) ==
    IF Truthy(obj.api_key) THEN <<obj, Nothing>>
    ELSE LET o1 == [obj EXCEPT !.api_key = environ]
         IN  IF ~Truthy(o1.api_key) /\ file.exists /\ file.isfile
             THEN ConfigLookup(o1, file)
             ELSE <<o1, Nothing>>

Construct ==
    /\ pc = "start"
    /\ \E api_key \in ApiKeyArgs, config \in ConfigArgs, retries \in RetriesArgs :
         LET out == ResolveCredential(InitialAttributes(api_key, config, retries),
                                      env, config_state)
         IN  /\ ctor' = [api_key |-> api_key, config |-> config, retries |-> retries]
             /\ self' = out[1]
             /\ result' = out[2]
             /\ pc' = IF out[2] = Nothing THEN "ready" ELSE "failed"
    /\ UNCHANGED <<world_vars, call, exec_vars>>

-----------------------------------------------------------------------------
(* The files and the idle values of the call state. *)

Missing == "<missing>"
Directory == "<directory>"
Paths == {"sample.doc", "legacy.doc", "notes.txt", "folder", "absent.doc", "out.bin"}

NoCall == [op |-> "none"]
NoApi == [method |-> None]
NoResponse == [status_code |-> 0]

-----------------------------------------------------------------------------
(* The request executor __API. *)

version == "1.0"

\* self.<name>: an attribute __init__ never assigned raises AttributeError.
GetAttr(obj, name) ==
    IF name \in DOMAIN obj THEN Return(obj[name]) ELSE Raise("AttributeError", <<name>>)

\* Headers that carry an Authorization entry whatever the credential is.
HeadersAlwaysAuthorized(obj) ==
    ("User-Agent" :> <<"python-inquestlabs/", version>>)
    @@ ("Authorization" :> <<"Basic: ", obj.api_key>>)

\* Lines 158-164.
Headers(obj) ==
    IF Truthy(obj.api_key)
    THEN ("User-Agent" :> <<"python-inquestlabs/", version>>)
         @@ ("Authorization" :> <<"Basic: ", obj.api_key>>)
    ELSE ("User-Agent" :> <<"python-inquestlabs/", version>>)

\* What the server can answer: a status code and a body.  A body is its
\* bytes (response.content) and what response.json() makes of them.
NotJson == [invalid |-> TRUE]
Bodies ==
    { [content |-> "",    json |-> NotJson],
      [content |-> "PK",  json |-> NotJson],
      [content |-> "abc", json |-> NotJson],
      [content |-> "{\"success\": true, \"data\": \"D\"}",
       json |-> [success |-> TRUE, data |-> "D"]],
      [content |-> "{\"success\": false, \"error\": \"E\"}",
       json |-> [success |-> FALSE, error |-> "E"]],
      [content |-> "{\"success\": false}",
       json |-> [success |-> FALSE]],
      [content |-> "{\"error\": \"E\"}",
       json |-> [error |-> "E"]] }
StatusCodes == {200, 400, 404}
Responses == [status_code : StatusCodes, body : Bodies]

\* response.json(): raises ValueError on a body that is not JSON.
Json(resp) ==
    IF resp.body.json = NotJson THEN Raise("ValueError", <<"No JSON object could be decoded">>)
    ELSE Return(resp.body.json)

\* dict.get(key, default)
DictGet(d, key, default) == IF key \in DOMAIN d THEN d[key] ELSE default

\* d[key]: raises KeyError on a missing key.
DictItem(d, key) == IF key \in DOMAIN d THEN Return(d[key]) ELSE Raise("KeyError", <<key>>)

\* Lines 196-221: what __API returns or raises for a received response.
Classify(resp, raw, endpoint) ==
    IF resp.status_code = 200
    THEN IF raw THEN Return(resp.body.content)
         ELSE LET response_json == Json(resp)
              IN  IF response_json.kind = "raise" THEN response_json
                  ELSE LET success == DictItem(response_json.value, "success")
                       IN  IF success.kind = "raise" THEN success
                           ELSE IF success.value
                           THEN DictItem(response_json.value, "data")
                           ELSE Raise("inquestlabs_exception",
                                      <<"status=200 but error communicating with ">>
                                      \o endpoint
                                      \o <<": ", DictGet(response_json.value, "error", "n/a")>>)
    ELSE LET response_json == Json(resp)
         IN  IF response_json.kind = "raise" THEN response_json
             ELSE Raise("inquestlabs_exception",
                        <<"status=", ToString(resp.status_code), " error communicating with ">>
                        \o endpoint
                        \o <<": ", DictGet(response_json.value, "error", "n/a")>>)

\* The attachment opened before the method is looked at.
PreconditionAfterOpen(method, path) ==
    IF Truthy(path) /\ fs[path] = Missing
    THEN Raise("IOError", <<"No such file or directory: ", path>>)
    ELSE IF method \notin {"GET", "POST"} THEN Raise("AssertionError", <<>>)
    ELSE Nothing

\* Lines 149-155: the precondition on the method, then the attachment is opened.
\* The outcome is an exception, or Nothing when the call goes on to the loop.
Precondition(method, path) ==
    IF method \notin {"GET", "POST"} THEN Raise("AssertionError", <<>>)
    ELSE IF Truthy(path) /\ fs[path] = Missing
    THEN Raise("IOError", <<"No such file or directory: ", path>>)
    ELSE Nothing

\* Handles open once lines 149-155 have run.
OpenedBy(method, path) ==
    IF Precondition(method, path) = Nothing /\ Truthy(path) THEN 1 ELSE 0

\* Lines 149-178: entry of __API(suffix, data, path, method, raw).
EnterAPI(suffix, data, path, method, raw) ==
    /\ requests' = 0
    /\ sleeps' = 0
    /\ attempt' = 0
    /\ response' = NoResponse
    /\ wire' = <<>>
    /\ naps' = <<>>
    /\ delay' = 0
    /\ caught' = None
    /\ files' = files + OpenedBy(method, path)
    /\ IF Precondition(method, path) # Nothing
       THEN /\ api_result' = Precondition(method, path)
            /\ api' = NoApi
            /\ transport' = 0
            /\ pc' = "api_return"
       ELSE /\ api_result' = Nothing
            /\ api' = [ method   |-> method,
                        data     |-> data,
                        path     |-> path,
                        raw      |-> raw,
                        headers  |-> Headers(self),
                        endpoint |-> <<self.base_url>> \o suffix ]
            /\ \E n \in 0..MaxFailures : transport' = n
            /\ pc' = "request"

\* The data argument when no dictionary is passed: None, no form field to
\* send, is held as the empty map.
NoData == <<>>

\* Lines 152-155: the files argument, the parts to attach by name.  None, no
\* part to attach, is held as the empty map.
NoFiles == <<>>

\* Lines 166-174 and 182: what one call of requests.request() is given.
Wire(locals, obj) ==
    [ method   |-> locals.method,
      endpoint |-> locals.endpoint,
      data     |-> locals.data,
      files    |-> IF Truthy(locals.path) THEN [file |-> locals.path] ELSE NoFiles,
      headers  |-> locals.headers,
      proxies  |-> obj.proxies,
      verify   |-> obj.verify_ssl ]

\* What requests.request() can raise: the transport failing (no connection,
\* a timeout), or anything else, as the tests' side_effect=Exception.
TransportExceptions == {"ConnectionError", "Timeout"}
RequestExceptions == TransportExceptions \cup {"Exception"}

\* Line 185: the bare except clause catches whatever was raised.
Catches(e) == TRUE

\* Line 182 raising: no response is received.  A transport planned to fail
\* MaxFailures times stays down for good.  The guard on requests stops the
\* exploration of a loop that would not end.
RequestFails ==
    /\ pc = "request"
    /\ transport > 0
    /\ requests <= MaxFailures
    /\ requests' = requests + 1
    /\ transport' = IF transport = MaxFailures THEN transport ELSE transport - 1
    /\ wire' = Append(wire, Wire(api, self))
    /\ \E e \in RequestExceptions :
         /\ caught' = e
         /\ IF Catches(e)
            THEN /\ pc' = "except"
                 /\ UNCHANGED api_result
            ELSE /\ pc' = "api_return"
                 /\ api_result' = Raise(e, <<>>)
    /\ UNCHANGED <<world_vars, ctor, self, call, api, attempt, sleeps, files,
                   response, naps, delay, result>>

\* Lines 182-183: a response is received and the loop is left.
RequestResponds ==
    /\ pc = "request"
    /\ transport = 0
    /\ requests' = requests + 1
    /\ wire' = Append(wire, Wire(api, self))
    /\ \E r \in Responses : response' = r
    /\ pc' = "classify"
    /\ UNCHANGED <<world_vars, ctor, self, call, api, attempt, sleeps, files,
                   transport, api_result, naps, delay, caught, result>>

\* The ceiling the comment of line 186 gives: 0.4, 1.6, 6.4, 25.6, ...
CeilingOfComment(n) == 4 ^ (n + 1) * 100

\* Line 187: the ceiling of the sleep, 4 ** attempt * 100 / 1000.0 seconds,
\* in milliseconds.
Ceiling(n) == 4 ^ n * 100

\* Lines 185-188: the except block sleeps for random.uniform(0, ceiling),
\* then counts the attempt.
Backoff ==
    /\ pc = "except"
    /\ sleeps' = sleeps + 1
    /\ naps' = Append(naps, Ceiling(attempt))
    /\ \E d \in {0, Ceiling(attempt)} : delay' = d
    /\ attempt' = attempt + 1
    /\ pc' = "check"
    /\ UNCHANGED <<world_vars, ctor, self, call, api, requests, files,
                   transport, response, api_result, wire, caught, result>>

\* An exhaustion test that never ends the loop.
NeverExhausted(obj, n, endpoint) == Nothing

\* Lines 190-194: the exhaustion test reads self.retries.
Exhausted(obj, n, endpoint) ==
    LET retries == GetAttr(obj, "retries")
    IN  IF retries.kind = "raise" THEN retries
        ELSE IF n = retries.value
        THEN Raise("inquestlabs_exception",
                   <<"exceeded ", ToString(retries.value),
                     " attempts to communicate with InQuest Labs API endpoint ">>
                   \o endpoint \o <<".">>)
        ELSE Nothing

CheckRetries ==
    /\ pc = "check"
    /\ LET out == Exhausted(self, attempt, api.endpoint)
       IN  IF out = Nothing
           THEN /\ pc' = "request"
                /\ UNCHANGED api_result
           ELSE /\ pc' = "api_return"
                /\ api_result' = out
    /\ UNCHANGED <<world_vars, ctor, self, call, api, attempt, requests, sleeps,
                   files, transport, response, wire, naps, delay, caught, result>>

ClassifyResponse ==
    /\ pc = "classify"
    /\ api_result' = Classify(response, api.raw, api.endpoint)
    /\ pc' = "api_return"
    /\ UNCHANGED <<world_vars, ctor, self, call, api, attempt, requests, sleeps,
                   files, transport, response, wire, naps, delay, caught, result>>

\* A direct call of the executor, as the tests make it.
Methods == {"GET", "POST", "INVALID"}
PathArgs == {None, "sample.doc", "absent.doc"}

CallAPI ==
    /\ pc = "ready"
    /\ \E method \in Methods, path \in PathArgs, raw \in BOOLEAN :
         /\ call' = [op |-> "API", method |-> method, path |-> path, raw |-> raw]
         /\ EnterAPI(<<"mock">>, NoData, path, method, raw)
    /\ UNCHANGED <<world_vars, ctor, self, result>>

\* Operations that hand back what __API returned or raised.  Line 155 binds
\* the handle of the attachment to a local and no line closes it: once __API
\* is left the handle stays open until the interpreter finalizes the object,
\* which happens at once or later, depending on the interpreter and on what
\* still refers to the frame.
ReturnFromAPI ==
    /\ pc = "api_return"
    /\ call.op \in {"API", "dfi_search", "dfi_upload"}
    /\ result' = api_result
    /\ \E finalized \in BOOLEAN : files' = IF finalized THEN 0 ELSE files
    /\ pc' = "done"
    /\ UNCHANGED <<world_vars, ctor, self, call, api, attempt, requests, sleeps,
                   transport, response, api_result, wire, naps, delay, caught>>

-----------------------------------------------------------------------------
(* str.lower() on strings held as sequences of characters. *)

UpperToLower ==
    ("A" :> "a") @@ ("C" :> "c") @@ ("D" :> "d") @@ ("E" :> "e") @@ ("H" :> "h") @@ ("M" :> "m") @@ ("O" :> "o") @@ ("S" :> "s") @@ ("T" :> "t") @@ ("X" :> "x")

lower(s) ==
    [i \in DOMAIN s |-> IF s[i] \in DOMAIN UpperToLower THEN UpperToLower[s[i]] ELSE s[i]]

-----------------------------------------------------------------------------
(* The hasher __HASH. *)

\* hashlib.<algorithm>(data).hexdigest() on the byte strings of the model.
hexdigest(algorithm, data) ==
    IF algorithm = <<"m", "d", "5">> /\ data = ""
    THEN "d41d8cd98f00b204e9800998ecf8427e"
    ELSE
    IF algorithm = <<"m", "d", "5">> /\ data = "PK"
    THEN "d71bdd22c8bb93b8d287dce6f46aed25"
    ELSE
    IF algorithm = <<"m", "d", "5">> /\ data = "abc"
    THEN "900150983cd24fb0d6963f7d28e17f72"
    ELSE
    IF algorithm = <<"m", "d", "5">> /\ data = "{\"success\": true, \"data\": \"D\"}"
    THEN "1fd55d96e40802f9bdf848e8011c4513"
    ELSE
    IF algorithm = <<"m", "d", "5">> /\ data = "{\"success\": false, \"error\": \"E\"}"
    THEN "30864f439bbe86f2f7c3368bd209f877"
    ELSE
    IF algorithm = <<"m", "d", "5">> /\ data = "{\"success\": false}"
    THEN "d9e31441c04c32264c6821f4ec958ca5"
    ELSE
    IF algorithm = <<"m", "d", "5">> /\ data = "{\"error\": \"E\"}"
    THEN "6daa1ba66597d74adac6846640bfa68a"
    ELSE
    IF algorithm = <<"s", "h", "a", "1">> /\ data = ""
    THEN "da39a3ee5e6b4b0d3255bfef95601890afd80709"
    ELSE
    IF algorithm = <<"s", "h", "a", "1">> /\ data = "PK"
    THEN "e14e7438ed45ff5dc2ea8f847854b2fdc2afe1cf"
    ELSE
    IF algorithm = <<"s", "h", "a", "1">> /\ data = "abc"
    THEN "a9993e364706816aba3e25717850c26c9cd0d89d"
    ELSE
    IF algorithm = <<"s", "h", "a", "1">> /\ data = "{\"success\": true, \"data\": \"D\"}"
    THEN "0be75e5245f1f9934fb9a4cb9f46694be0b0b582"
    ELSE
    IF algorithm = <<"s", "h", "a", "1">> /\ data = "{\"success\": false, \"error\": \"E\"}"
    THEN "d3e50f2ca4b8a739fd8f0432d4a629cd183e3963"
    ELSE
    IF algorithm = <<"s", "h", "a", "1">> /\ data = "{\"success\": false}"
    THEN "8516f62844b4264d3ccaab00350323d07b9c50ef"
    ELSE
    IF algorithm = <<"s", "h", "a", "1">> /\ data = "{\"error\": \"E\"}"
    THEN "bf679cc982b938aae6b1b0804a0e8018f23f6463"
    ELSE
    IF algorithm = <<"s", "h", "a", "2", "5", "6">> /\ data = ""
    THEN "e3b0c44298fc1c149afbf4c8996fb92427ae41e4649b934ca495991b7852b855"
    ELSE
    IF algorithm = <<"s", "h", "a", "2", "5", "6">> /\ data = "PK"
    THEN "fcab7fcc2b4cffd9bb45003bfc2e468a04ef6f77ca8200a7341f027631584d25"
    ELSE
    IF algorithm = <<"s", "h", "a", "2", "5", "6">> /\ data = "abc"
    THEN "ba7816bf8f01cfea414140de5dae2223b00361a396177a9cb410ff61f20015ad"
    ELSE
    IF algorithm = <<"s", "h", "a", "2", "5", "6">> /\ data = "{\"success\": true, \"data\": \"D\"}"
    THEN "9df89fafb40817487872e2caa77543704030a1239b80471bf104409a8d53e082"
    ELSE
    IF algorithm = <<"s", "h", "a", "2", "5", "6">> /\ data = "{\"success\": false, \"error\": \"E\"}"
    THEN "1f22c8bd25d052ab6476e10a9c580ee8880a5cf95452d2d512f69310df57daf6"
    ELSE
    IF algorithm = <<"s", "h", "a", "2", "5", "6">> /\ data = "{\"success\": false}"
    THEN "fcd6acab1a311e89ae1aef024707e986871eff4071c584de3e93970c5fc4a23d"
    ELSE
    IF algorithm = <<"s", "h", "a", "2", "5", "6">> /\ data = "{\"error\": \"E\"}"
    THEN "72238fff508dac152865b3fdf5ba2ea4d0cbda0d9c627d26cb6c9303bab122f1"
    ELSE
    IF algorithm = <<"s", "h", "a", "5", "1", "2">> /\ data = ""
    THEN "cf83e1357eefb8bdf1542850d66d8007d620e4050b5715dc83f4a921d36ce9ce47d0d13c5d85f2b0ff8318d2877eec2f63b931bd47417a81a538327af927da3e"
    ELSE
    IF algorithm = <<"s", "h", "a", "5", "1", "2">> /\ data = "PK"
    THEN "986e80d3693602bd03462d36785fe5b9d33b9d553cde05ed59288d33e04be9c166753056bb7b91d9eac9fe4fc5cb45f00c71f0f0734c2b800af109498c8c0a47"
    ELSE
    IF algorithm = <<"s", "h", "a", "5", "1", "2">> /\ data = "abc"
    THEN "ddaf35a193617abacc417349ae20413112e6fa4e89a97ea20a9eeee64b55d39a2192992a274fc1a836ba3c23a3feebbd454d4423643ce80e2a9ac94fa54ca49f"
    ELSE
    IF algorithm = <<"s", "h", "a", "5", "1", "2">> /\ data = "{\"success\": true, \"data\": \"D\"}"
    THEN "bf467786c82a62d7c2a1c60b9a3dc4b357b5374a704294bf44ec1e1a58dcf9b4cf7664bc2b1335314899b28b49a7351fb368394ba1bf2a9b208643aebbf63dfd"
    ELSE
    IF algorithm = <<"s", "h", "a", "5", "1", "2">> /\ data = "{\"success\": false, \"error\": \"E\"}"
    THEN "874e08108dcbe970052484d843b8d01ea0d233d49c1bb3635879f5d2910b3970155b918e5494b788b39181e6e2ea1c98a6091adb3eb052601311285cf94b6f66"
    ELSE
    IF algorithm = <<"s", "h", "a", "5", "1", "2">> /\ data = "{\"success\": false}"
    THEN "be41d9323cec8cb73abde7d5fae3d190485cc0b4c613c0c642c192dbe06509005ac6be8c9836464f10796311b8b513924a836eb9b9008eb233ccc07292797d45"
    ELSE
    IF algorithm = <<"s", "h", "a", "5", "1", "2">> /\ data = "{\"error\": \"E\"}"
    THEN "36d76bcc02ddbc7d32982f3fb8aea7bc3366729ef236de07bb13b5671a69bae70c517680de650780bbb806c31c112ec9ed4a7464739866fe4a487e3fe1b954d5"
    ELSE "<digest of other data>"

HashAlgorithms == {<<"m", "d", "5">>, <<"s", "h", "a", "1">>, <<"s", "h", "a", "2", "5", "6">>, <<"s", "h", "a", "5", "1", "2">>}

\* Lines 249-283 with fmt = "digest", as the shortcuts md5/sha1/sha256/sha512
\* call it: the digest returned, or the exception raised.
HASH(path, bytes, algorithm) ==
    LET alg   == lower(algorithm)
        bound == alg \in HashAlgorithms
    IN  IF Truthy(path)
        THEN IF fs[path] = Missing
             THEN Raise("IOError", <<"No such file or directory: ", path>>)
             ELSE IF ~bound THEN Raise("UnboundLocalError", <<"hashfunc">>)
             ELSE Return(hexdigest(alg, fs[path]))
        ELSE IF Truthy(bytes)
        THEN IF ~bound THEN Raise("UnboundLocalError", <<"hashfunc">>)
             ELSE Return(hexdigest(alg, bytes))
        ELSE Raise("inquestlabs_exception", <<"hash expects either 'path' or 'bytes'.">>)

\* Lines 287-290.
sha256(path, bytes) == HASH(path, bytes, <<"s", "h", "a", "2", "5", "6">>)

HashPathArgs == {None, "", "sample.doc", "absent.doc"}
HashBytesArgs == {None, "", "PK", "abc"}
HashAlgorithmArgs == HashAlgorithms \cup {<<"S", "H", "A", "1">>, <<"c", "r", "c", "3", "2">>}

\* A call of md5 / sha1 / sha256 / sha512, or of __HASH with an algorithm name.
CallHash ==
    /\ pc = "ready"
    /\ \E path \in HashPathArgs, bytes \in HashBytesArgs, algorithm \in HashAlgorithmArgs :
         /\ call' = [op |-> "hash", path |-> path, bytes |-> bytes, algorithm |-> algorithm]
         /\ result' = HASH(path, bytes, algorithm)
    /\ pc' = "done"
    /\ UNCHANGED <<world_vars, ctor, self, exec_vars>>

-----------------------------------------------------------------------------
(* dfi_download *)

Sha256Args ==
    { hexdigest(<<"s", "h", "a", "2", "5", "6">>, ""), hexdigest(<<"s", "h", "a", "2", "5", "6">>, "PK"),
      hexdigest(<<"s", "h", "a", "2", "5", "6">>, "abc"),
      "0000000000000000000000000000000000000000000000000000000000000000" }

\* Line 374.
CallDfiDownload ==
    /\ pc = "ready"
    /\ \E h \in Sha256Args :
         /\ call' = [op |-> "dfi_download", sha256 |-> h, path |-> "out.bin"]
         /\ EnterAPI(<<"/dfi/download">>, [sha256 |-> h], None, "GET", TRUE)
    /\ UNCHANGED <<world_vars, ctor, self, result>>

\* Lines 376-386: <<what dfi_download returns or raises, the files afterwards>>.
VerifyAndWrite(got, expected, path, disk) ==
    IF got.kind = "raise" THEN <<got, disk>>
    ELSE LET data       == got.value
             calculated == sha256(None, data)
         IN  IF calculated.kind = "raise" THEN <<calculated, disk>>
             ELSE IF calculated.value # expected
             THEN <<Raise("inquestlabs_exception",
                          <<"failed downloading file! expected sha256=", expected,
                            " calculated sha256=", calculated.value>>), disk>>
             ELSE <<Return(None), [disk EXCEPT ![path] = data]>>

DownloadVerify ==
    /\ pc = "api_return"
    /\ call.op = "dfi_download"
    /\ LET out == VerifyAndWrite(api_result, call.sha256, call.path, fs)
       IN  /\ result' = out[1]
           /\ fs' = out[2]
    /\ pc' = "done"
    /\ UNCHANGED <<env, config_state, ctor, self, call, exec_vars>>

-----------------------------------------------------------------------------
(* dfi_search *)

VALID_CAT  == <<<<"e", "x", "t">>, <<"h", "a", "s", "h">>, <<"i", "o", "c">>>>
VALID_EXT  == <<<<"c", "o", "d", "e">>, <<"c", "o", "n", "t", "e", "x", "t">>, <<"m", "e", "t", "a", "d", "a", "t", "a">>, <<"o", "c", "r">>>>
VALID_HASH == <<<<"m", "d", "5">>, <<"s", "h", "a", "1">>, <<"s", "h", "a", "2", "5", "6">>, <<"s", "h", "a", "5", "1", "2">>>>
VALID_IOC  == <<<<"d", "o", "m", "a", "i", "n">>,
                <<"e", "m", "a", "i", "l">>,
                <<"f", "i", "l", "e", "n", "a", "m", "e">>,
                <<"i", "p">>,
                <<"u", "r", "l">>,
                <<"x", "m", "p", "i", "d">>>>

Range(seq) == {seq[i] : i \in DOMAIN seq}

\* ", ".join(seq)
Join(seq) == [i \in 1..(2 * Len(seq) - 1) |-> IF i % 2 = 1 THEN seq[(i + 1) \div 2] ELSE ", "]

\* zip(VALID_CAT, [VALID_EXT, VALID_HASH, VALID_IOC])
CategoryLists == <<VALID_EXT, VALID_HASH, VALID_IOC>>

\* A sanity check that accepts a subcategory of any category.
SearchCheckAnyList(category, subcategory) ==
    IF category \notin Range(VALID_CAT)
    THEN Raise("inquestlabs_exception",
               <<"invalid category '", category, "'. valid categories include: ",
                 Join(VALID_CAT)>>)
    ELSE IF subcategory \notin Range(VALID_EXT) \cup Range(VALID_HASH) \cup Range(VALID_IOC)
    THEN Raise("inquestlabs_exception",
               <<"invalid subcategory '", subcategory, "' for category '",
                 category, "'. valid subcategories include: ", Join(VALID_EXT)>>)
    ELSE Nothing

\* Lines 418-432: the exception the sanity checks raise, or Nothing.
SearchCheck(category, subcategory) ==
    IF category \notin Range(VALID_CAT)
    THEN Raise("inquestlabs_exception",
               <<"invalid category '", category, "'. valid categories include: ",
                 Join(VALID_CAT)>>)
    ELSE LET hits == {i \in DOMAIN VALID_CAT :
                        category = VALID_CAT[i] /\ subcategory \notin Range(CategoryLists[i])}
         IN  IF hits # {}
             THEN LET i == CHOOSE j \in hits : \A k \in hits : j <= k
                  IN  Raise("inquestlabs_exception",
                            <<"invalid subcategory '", subcategory, "' for category '",
                              category, "'. valid subcategories include: ",
                              Join(CategoryLists[i])>>)
             ELSE Nothing

\* Lines 434-443: the endpoint suffix and the form data of a search.
SearchSuffix(category, subcategory) ==
    <<"/dfi/search/", category, "/",
      IF category = <<"e", "x", "t">> THEN <<"e", "x", "t", "_">> \o subcategory ELSE subcategory>>

SearchData(category, keyword) ==
    IF category = <<"h", "a", "s", "h">> THEN [hash |-> keyword] ELSE [keyword |-> keyword]

CategoryArgs ==
    Range(VALID_CAT) \cup {<<"E", "X", "T">>, <<"H", "a", "s", "h">>, <<"u", "r", "l">>, <<"o", "t", "h", "e", "r">>}
SubcategoryArgs ==
    Range(VALID_EXT) \cup Range(VALID_HASH) \cup Range(VALID_IOC)
    \cup {<<"S", "H", "A", "2", "5", "6">>, <<"C", "o", "d", "e">>, <<"o", "t", "h", "e", "r">>}

DfiSearch ==
    /\ pc = "ready"
    /\ \E category \in CategoryArgs, subcategory \in SubcategoryArgs :
         LET c == lower(category)
             s == lower(subcategory)
             failure == SearchCheck(c, s)
         IN  /\ call' = [op |-> "dfi_search", category |-> category,
                         subcategory |-> subcategory, keyword |-> "deadbeef"]
             /\ IF failure # Nothing
                THEN /\ result' = failure
                     /\ pc' = "done"
                     /\ UNCHANGED exec_vars
                ELSE /\ EnterAPI(SearchSuffix(c, s), SearchData(c, "deadbeef"),
                                 None, "GET", FALSE)
                     /\ UNCHANGED result
    /\ UNCHANGED <<world_vars, ctor, self>>

-----------------------------------------------------------------------------

-----------------------------------------------------------------------------
(* dfi_upload *)

\* The header of the file says "python 2/3 compatability": the module runs under both.
Interpreters == {2, 3}

\* A file in the compound format of the older Office documents: its first
\* bytes are D0 CF 11 E0.
D0CF == "<D0 CF>"
CompoundFile == "<D0 CF 11 E0 A1 B1 1A E1>"

\* The first two bytes of the files of the model.
Prefix2(content) ==
    CASE content = "PK"         -> "PK"
      [] content = "abc"        -> "ab"
      [] content = CompoundFile -> D0CF
      [] OTHER                  -> ""

\* Line 477, fh.read(2) on a file opened "rb": a str under Python 2, a bytes
\* object under Python 3.  A value is held with its type.
Read2(content, py) == <<IF py = 2 THEN "str" ELSE "bytes", Prefix2(content)>>

\* Line 478: the two str literals the prefix is looked up in.  A bytes object
\* is equal to no str.
Magic == {<<"str", D0CF>>, <<"str", "PK">>}

\* Line 471.
VALID_TYPES == <<"doc", "docx", "ppt", "pptx", "xls", "xlsx">>

\* Lines 474-481: the tests dfi_upload makes before it calls __API.  The
\* outcome is an exception, or Nothing when the upload goes on.
UploadCheck(path, disk, py) ==
    IF disk[path] = Missing \/ disk[path] = Directory
    THEN Raise("inquestlabs_exception",
               <<"invalid file path specified for upload: ", path>>)
    ELSE IF Read2(disk[path], py) \notin Magic
    THEN Raise("inquestlabs_exception",
               <<"unsupported file type for upload, valid files include: ",
                 Join(VALID_TYPES)>>)
    ELSE Nothing

\* Lines 477-478: the bytes the with block reads before its handle is closed.
BytesRead(path, disk) ==
    IF disk[path] = Missing \/ disk[path] = Directory THEN 0 ELSE 2

\* An upload made with the default method of __API.
UploadMethodGet == "GET"

\* Line 484: method="POST".
UploadMethod == "POST"

UploadArgs == {"sample.doc", "legacy.doc", "notes.txt", "folder", "absent.doc"}

\* Lines 458-484.
DfiUpload ==
    /\ pc = "ready"
    /\ \E path \in UploadArgs, py \in Interpreters :
         /\ call' = [op |-> "dfi_upload", path |-> path, py |-> py,
                     read |-> BytesRead(path, fs)]
         /\ IF UploadCheck(path, fs, py) # Nothing
            THEN /\ result' = UploadCheck(path, fs, py)
                 /\ pc' = "done"
                 /\ UNCHANGED exec_vars
            ELSE /\ EnterAPI(<<"/dfi/upload">>, NoData, path, UploadMethod, FALSE)
                 /\ UNCHANGED result
    /\ UNCHANGED <<world_vars, ctor, self>>

Init ==
    /\ env \in EnvValues
    /\ config_state \in ConfigStates
    /\ fs \in {[p \in Paths |-> CASE p = "sample.doc" -> "PK"
                                   [] p = "legacy.doc" -> CompoundFile
                                   [] p = "notes.txt"  -> "abc"
                                   [] p = "folder"     -> Directory
                                   [] p = "out.bin"    -> old
                                   [] OTHER            -> Missing] :
               old \in {Missing, "abc"}}
    /\ ctor = Nothing
    /\ self = Nothing
    /\ pc = "start"
    /\ call = NoCall
    /\ api = NoApi
    /\ attempt = 0
    /\ requests = 0
    /\ sleeps = 0
    /\ files = 0
    /\ transport = 0
    /\ response = NoResponse
    /\ api_result = Nothing
    /\ wire = <<>>
    /\ naps = <<>>
    /\ delay = 0
    /\ caught = None
    /\ result = Nothing

Next ==
    \/ Construct
    \/ CallAPI
    \/ RequestFails
    \/ RequestResponds
    \/ Backoff
    \/ CheckRetries
    \/ ClassifyResponse
    \/ ReturnFromAPI
    \/ CallHash
    \/ CallDfiDownload
    \/ DownloadVerify
    \/ DfiSearch
    \/ DfiUpload

Spec == Init /\ [][Next]_vars

\* The states in which a client has just been constructed, with each choice
\* of key and of retries, where no environment key and no configuration file
\* exist.
ExecutorInit ==
    /\ env = None
    /\ config_state = [exists |-> FALSE, isfile |-> FALSE, parses |-> FALSE, sections |-> <<>>]
    /\ fs \in {[p \in Paths |-> CASE p = "sample.doc" -> "PK"
                                   [] p = "legacy.doc" -> CompoundFile
                                   [] p = "notes.txt"  -> "abc"
                                   [] p = "folder"     -> Directory
                                   [] p = "out.bin"    -> old
                                   [] OTHER            -> Missing] :
               old \in {Missing, "abc"}}
    /\ \E api_key \in ApiKeyArgs, retries \in RetriesArgs :
         /\ ctor = [api_key |-> api_key, config |-> None, retries |-> retries]
         /\ self = ResolveCredential(InitialAttributes(api_key, None, retries),
                                     env, config_state)[1]
    /\ pc = "ready"
    /\ call = NoCall
    /\ api = NoApi
    /\ attempt = 0
    /\ requests = 0
    /\ sleeps = 0
    /\ files = 0
    /\ transport = 0
    /\ response = NoResponse
    /\ api_result = Nothing
    /\ wire = <<>>
    /\ naps = <<>>
    /\ delay = 0
    /\ caught = None
    /\ result = Nothing

\* The steps of a call of the executor.
ExecutorNext ==
    \/ CallAPI
    \/ RequestFails
    \/ RequestResponds
    \/ Backoff
    \/ CheckRetries
    \/ ClassifyResponse
    \/ ReturnFromAPI

\* The calls of the executor on a constructed client.  The client runs in the
\* thread of its caller: a statement that can run does run, and no step of a
\* call is put off for ever.
ExecutorSpec == ExecutorInit /\ [][ExecutorNext]_vars /\ WF_vars(ExecutorNext)

-----------------------------------------------------------------------------
(* Properties. *)

\* __API has returned or raised.
ExecutorFinished == api_result # Nothing

\* Every request of the call ended in a transport exception.
AllAttemptsFailed == requests > 0 /\ response = NoResponse

\* The attempt at which the transport of this call first delivers a response.
FirstSuccess == requests + transport + (IF response = NoResponse THEN 1 ELSE 0)

ExhaustedRetries ==
    Raise("inquestlabs_exception",
          <<"exceeded ", ToString(self.num_retries),
            " attempts to communicate with InQuest Labs API endpoint ">>
          \o api.endpoint \o <<".">>)

\* C1: when every attempt ends in a transport exception, the executor makes
\* exactly `retries` attempts and then raises the exhausted-retries error
\* naming the attempt count and the endpoint.
C1_ExactlyBudgetAttemptsThenExhausted ==
    (ExecutorFinished /\ AllAttemptsFailed)
        => (requests = self.num_retries /\ api_result = ExhaustedRetries)

\* C2: a sleep happens only between two attempts, never after the last one:
\* a finished call that made n attempts slept n - 1 times.
C2_SleepsOnlyBetweenAttempts ==
    (ExecutorFinished /\ requests > 0) => sleeps = requests - 1

\* C3: a transport that first delivers a response on attempt k, k within the
\* budget, causes exactly k attempts, the last of which received the response.
C3_SucceedsOnAttemptK ==
    (ExecutorFinished /\ api # NoApi /\ FirstSuccess <= self.num_retries)
        => (requests = FirstSuccess /\ response # NoResponse)

\* C4: for every received response the result follows from status, raw and
\* envelope.success: 200 and raw returns the body; 200 and success returns
\* data; 200 and not success raises "status=200 but error communicating with
\* <endpoint>: <error or n/a>"; any other status raises a message holding
\* "status=<code>" and returns no payload.
C4_ResultDecidedByStatusRawSuccess ==
    (ExecutorFinished /\ response # NoResponse) =>
        LET body == response.body
            hasSuccess == body.json # NotJson /\ "success" \in DOMAIN body.json
        IN  /\ (response.status_code = 200 /\ api.raw)
                  => api_result = Return(body.content)
            /\ (response.status_code = 200 /\ ~api.raw /\ hasSuccess /\ body.json.success)
                  => api_result = Return(body.json.data)
            /\ (response.status_code = 200 /\ ~api.raw /\ hasSuccess /\ ~body.json.success)
                  => api_result =
                       Raise("inquestlabs_exception",
                             <<"status=200 but error communicating with ">> \o api.endpoint
                             \o <<": ", IF "error" \in DOMAIN body.json
                                        THEN body.json.error ELSE "n/a">>)
            /\ response.status_code # 200
                  => /\ api_result.kind = "raise"
                     /\ Len(api_result.message) >= 2
                     /\ api_result.message[1] = "status="
                     /\ api_result.message[2] = ToString(response.status_code)

\* C5: a method other than GET or POST fails with AssertionError before
\* anything else happens: no request, no sleep, no attachment opened, no
\* attempt counted, with or without an API key.
C5_InvalidMethodFailsFirst ==
    (call.op = "API" /\ call.method \notin {"GET", "POST"}) =>
        /\ pc \in {"api_return", "done"}
        /\ api_result = Raise("AssertionError", <<>>)
        /\ pc = "done" => result = Raise("AssertionError", <<>>)
        /\ requests = 0
        /\ sleeps = 0
        /\ attempt = 0
        /\ files = 0

C5_Witness ==
    /\ pc = "done"
    /\ call.op = "API"
    /\ call.method = "INVALID"
    /\ call.path = "sample.doc"
    /\ self.api_key = "KEY_ENV"
    /\ result.kind = "raise"

Constructed == pc \notin {"start", "failed"}

ConfigIsFile == config_state.exists /\ config_state.isfile

ConfigHasKey ==
    /\ ConfigIsFile
    /\ config_state.parses
    /\ "inquestlabs" \in DOMAIN config_state.sections
    /\ "apikey" \in DOMAIN config_state.sections["inquestlabs"]

\* C6 as stated: explicit key, else environment key, else the config file's
\* inquestlabs.apikey, else None.
C6_PriorityElseNone ==
    Constructed =>
        self.api_key =
            IF Truthy(ctor.api_key) THEN ctor.api_key
            ELSE IF Truthy(env) THEN env
            ELSE IF ConfigIsFile THEN config_state.sections["inquestlabs"]["apikey"]
            ELSE None

\* C6 amended: explicit key, else environment key, else the config file's
\* inquestlabs.apikey, else no usable credential: None when IQLABS_APIKEY is
\* unset and the empty string when it is set but empty.
C6_PriorityElseEmpty ==
    Constructed =>
        /\ Truthy(ctor.api_key) => self.api_key = ctor.api_key
        /\ (~Truthy(ctor.api_key) /\ Truthy(env)) => self.api_key = env
        /\ (~Truthy(ctor.api_key) /\ ~Truthy(env) /\ ConfigIsFile)
              => /\ ConfigHasKey
                 /\ self.api_key = config_state.sections["inquestlabs"]["apikey"]
        /\ (~Truthy(ctor.api_key) /\ ~Truthy(env) /\ ~ConfigIsFile)
              => /\ ~Truthy(self.api_key)
                 /\ self.api_key = env
                 /\ env = None => self.api_key = None

C6_Witness ==
    /\ pc = "ready"
    /\ ctor.api_key = "KEY_ARG"
    /\ env = "KEY_ENV"
    /\ ConfigHasKey
    /\ self.api_key = "KEY_ARG"

\* C7: construction fails exactly when the config file is consulted (no
\* explicit key, no environment key, the path is a regular file) and is
\* unparseable ("invalid configuration file") or lacks inquestlabs.apikey
\* ("unable to find inquestlabs.apikey"); with an explicit or environment key
\* the file's content is irrelevant, and without a file construction succeeds
\* with no usable credential.
C7_ConfigErrorOnlyWhenConsulted ==
    pc # "start" =>
        LET consulted == ~Truthy(ctor.api_key) /\ ~Truthy(env) /\ ConfigIsFile
        IN  /\ pc = "failed" <=> (consulted /\ ~ConfigHasKey)
            /\ (consulted /\ ~config_state.parses)
                  => result = Raise("inquestlabs_exception",
                                    <<"invalid configuration file: ", self.config_file>>)
            /\ (consulted /\ config_state.parses /\ ~ConfigHasKey)
                  => result = Raise("inquestlabs_exception",
                                    <<"unable to find inquestlabs.apikey in: ",
                                      self.config_file>>)
            /\ (~Truthy(ctor.api_key) /\ ~Truthy(env) /\ ~ConfigIsFile)
                  => (pc # "failed" /\ ~Truthy(self.api_key))

C7_Witness ==
    /\ pc = "failed"
    /\ ctor.api_key = ""
    /\ env = ""
    /\ ConfigIsFile
    /\ ~config_state.parses
    /\ result.message[1] = "invalid configuration file: "

\* C8: dfi_download writes the target file if and only if the executor
\* returned a body whose SHA-256 hex digest equals the requested hash, and
\* then the file holds the received bytes; in every other case the file is
\* left as it was.
C8_WritesIffDigestMatches ==
    [][ (pc = "api_return" /\ call.op = "dfi_download") =>
          IF /\ api_result.kind = "return"
             /\ hexdigest(<<"s", "h", "a", "2", "5", "6">>, api_result.value) = call.sha256
          THEN fs' = [fs EXCEPT ![call.path] = api_result.value]
          ELSE fs' = fs ]_vars

\* C9: the hasher raises "hash expects either 'path' or 'bytes'" if and only
\* if neither a path nor a buffer was given; a buffer of any length, given
\* alone with a supported algorithm, yields its digest.  A path is given when
\* it names a file (a non-empty string), a buffer when it is not None.
C9_FailsIffNeitherGiven ==
    (pc = "done" /\ call.op = "hash") =>
        /\ (result = Raise("inquestlabs_exception",
                           <<"hash expects either 'path' or 'bytes'.">>))
              <=> (~Truthy(call.path) /\ call.bytes = None)
        /\ (~Truthy(call.path) /\ call.bytes # None
            /\ lower(call.algorithm) \in HashAlgorithms)
              => result = Return(hexdigest(lower(call.algorithm), call.bytes))

\* The subcategories the documentation of dfi_search lists for each category.
Documented(category) ==
    IF category = <<"e", "x", "t">> THEN <<<<"c", "o", "d", "e">>, <<"c", "o", "n", "t", "e", "x", "t">>, <<"m", "e", "t", "a", "d", "a", "t", "a">>, <<"o", "c", "r">>>>
    ELSE IF category = <<"h", "a", "s", "h">> THEN <<<<"m", "d", "5">>, <<"s", "h", "a", "1">>, <<"s", "h", "a", "2", "5", "6">>, <<"s", "h", "a", "5", "1", "2">>>>
    ELSE IF category = <<"i", "o", "c">>
    THEN <<<<"d", "o", "m", "a", "i", "n">>,
           <<"e", "m", "a", "i", "l">>,
           <<"f", "i", "l", "e", "n", "a", "m", "e">>,
           <<"i", "p">>,
           <<"u", "r", "l">>,
           <<"x", "m", "p", "i", "d">>>>
    ELSE <<>>

\* C10: dfi_search lower-cases both selectors and reaches the executor only
\* for a category of ext/hash/ioc with a subcategory of that category's own
\* list; every other pair raises an error naming the allowed set and makes
\* no request.
C10_SearchOnlyForListedPairs ==
    call.op = "dfi_search" =>
        LET c == lower(call.category)
            s == lower(call.subcategory)
            listed == \E i \in DOMAIN Documented(c) : Documented(c)[i] = s
        IN  /\ listed =>
                /\ api # NoApi
                /\ api.endpoint[3] = c
                /\ pc = "done" => result = api_result
            /\ ~listed =>
                /\ pc = "done"
                /\ requests = 0
                /\ api = NoApi
                /\ result.kind = "raise"
                /\ result.type = "inquestlabs_exception"
                /\ result.message[Len(result.message)] =
                     IF Documented(c) = <<>>
                     THEN Join(<<<<"e", "x", "t">>, <<"h", "a", "s", "h">>, <<"i", "o", "c">>>>)
                     ELSE Join(Documented(c))

C10_Witness ==
    /\ pc = "done"
    /\ call.op = "dfi_search"
    /\ call.category = <<"E", "X", "T">>
    /\ call.subcategory = <<"s", "h", "a", "2", "5", "6">>
    /\ requests = 0
    /\ result.kind = "raise"

-----------------------------------------------------------------------------
(* dfi_upload and the handles, exceptions and requests of the executor *)

\* The path names a regular file whose first two bytes are D0 CF or "PK".
OfficeFile(path) ==
    /\ fs[path] # Missing
    /\ fs[path] # Directory
    /\ Prefix2(fs[path]) \in {D0CF, "PK"}

\* C11: dfi_upload reaches the executor, with a POST to /dfi/upload carrying
\* the file, exactly when the path names a regular file whose first two bytes
\* are D0 CF or "PK"; a path that is missing or not a regular file fails
\* before a byte is read, any other prefix fails as an unsupported file type
\* listing the extensions, and neither rejection makes a request.
C11_UploadReachesExecutorIffOfficeFile ==
    call.op = "dfi_upload" =>
        /\ (api # NoApi) <=> OfficeFile(call.path)
        /\ api # NoApi =>
             /\ api.method = "POST"
             /\ api.endpoint = <<self.base_url, "/dfi/upload">>
             /\ api.path = call.path
        /\ fs[call.path] \in {Missing, Directory} =>
             /\ result = Raise("inquestlabs_exception",
                               <<"invalid file path specified for upload: ", call.path>>)
             /\ call.read = 0
             /\ wire = <<>>
        /\ (fs[call.path] \notin {Missing, Directory} /\ ~OfficeFile(call.path)) =>
             /\ result = Raise("inquestlabs_exception",
                               <<"unsupported file type for upload, valid files include: ",
                                 Join(VALID_TYPES)>>)
             /\ wire = <<>>

\* C12: every handle the client opens (to hash, to test an upload, to attach
\* a file to a request, to write a download) is closed on every exit path:
\* once an operation has returned or raised, no handle is left open.
C12_NoHandleLeftOpen ==
    pc \in {"done", "failed"} => files = 0

\* C13: whatever makes an operation fail (a bad method, a missing attachment,
\* exhausted retries, an error answer of the API, an unsupported hash
\* algorithm, no hash input, a bad category, a bad upload, a download that
\* does not match, a configuration error), the caller receives an
\* inquestlabs_exception: no exception of another type escapes.
C13_OnlyLibraryExceptionEscapes ==
    (pc \in {"done", "failed"} /\ result.kind = "raise") =>
        result.type = "inquestlabs_exception"

\* C14: every request handed to the transport carries the User-Agent
\* "python-inquestlabs/<version>", and carries an Authorization header, with
\* the literal value "Basic: <key>", exactly when the client holds a non-empty
\* credential; all the attempts of one call carry the same headers, and a
\* client without a credential still sends its requests.
C14_HeadersOfEveryAttempt ==
    \A i \in 1..Len(wire) :
        /\ wire[i].headers["User-Agent"] = <<"python-inquestlabs/", "1.0">>
        /\ ("Authorization" \in DOMAIN wire[i].headers)
              <=> (self.api_key # None /\ self.api_key # "")
        /\ "Authorization" \in DOMAIN wire[i].headers =>
              wire[i].headers["Authorization"] = <<"Basic: ", self.api_key>>
        /\ wire[i].headers = wire[1].headers

\* A request of a client that holds a credential has been sent.
C14_Witness ==
    /\ wire # <<>>
    /\ self.api_key \notin {None, ""}
    /\ "Authorization" \in DOMAIN wire[1].headers

\* C15 as stated: every request that carries a file is a POST, whether it is
\* issued by an operation of the client or by the executor called with a path.
C15_AttachmentOnlyWithPost ==
    \A i \in 1..Len(wire) :
        wire[i].files # <<>> => wire[i].method = "POST"

\* C15 as the code has it: every request that carries a file and is issued by
\* an operation of the client (dfi_upload is the one that passes a path) is a
\* POST; the executor called directly sends the file with the method given.
C15_OperationsAttachWithPost ==
    \A i \in 1..Len(wire) :
        (wire[i].files # <<>> /\ call.op # "API") => wire[i].method = "POST"

\* dfi_upload has sent its request, with the file.
C15_Witness ==
    /\ call.op = "dfi_upload"
    /\ wire # <<>>
    /\ wire[1].files = [file |-> call.path]
    /\ wire[1].method = "POST"

\* C16: the loop retries transport failures only.  An exception of any other
\* kind raised by the request propagates to the caller at once: no sleep, no
\* increment of the attempt counter, no further attempt.
C16_OtherFailuresPropagate ==
    (caught # None /\ caught \notin {"ConnectionError", "Timeout"}) =>
        /\ sleeps = 0
        /\ attempt = 0
        /\ Len(wire) = 1
        /\ pc = "done" => result = Raise(caught, <<>>)

====
